---- MODULE Spec2Model ----
(***************************************************************************)
(* Model of tonsdk/contract/wallet/_wallet_contract.py: SendModeEnum,      *)
(* WalletMessage and WalletContract.                                       *)
(*                                                                         *)
(* Python values are modelled as follows.                                  *)
(*   None / a value v        : the sequences <<>> and <<v>>                *)
(*   dict                    : a record whose DOMAIN is the dict's keys    *)
(*   str                     : a sequence of code points                   *)
(*   bytes                   : a sequence of numbers 0..255                *)
(*   Cell                    : [bits |-> bytes written, refs |-> cells]    *)
(*   a dynamically typed arg : [type |-> <python type name>, v |-> value]  *)
(* An operation that raises yields [ok |-> FALSE, error |-> <exception>].  *)
(***************************************************************************)
EXTENDS Integers, Sequences, FiniteSets, TLC

None == <<>>
Some(v) == <<v>>

(***************************************************************************)
(* SendModeEnum (an int enumeration; members combine with |).              *)
(***************************************************************************)
carry_all_remaining_balance == 128
carry_all_remaining_incoming_value == 64
destroy_account_if_zero == 32
ignore_errors == 2
pay_gas_separately == 1

RECURSIVE BitOr(_, _)
BitOr(a, b) ==
    IF a = 0 THEN b
    ELSE IF b = 0 THEN a
    ELSE (IF a % 2 = 1 \/ b % 2 = 1 THEN 1 ELSE 0) + 2 * BitOr(a \div 2, b \div 2)

DefaultSendMode == BitOr(ignore_errors, pay_gas_separately)

(***************************************************************************)
(* The cell engine (tonsdk.boc.Cell), at byte granularity.                 *)
(***************************************************************************)
Cell == [bits |-> <<>>, refs |-> <<>>]

RECURSIVE UintBE(_, _)
UintBE(v, nbytes) ==
    IF nbytes = 0 THEN <<>> ELSE UintBE(v \div 256, nbytes - 1) \o <<v % 256>>

write_uint(cell, v, width) == [cell EXCEPT !.bits = @ \o UintBE(v, width \div 8)]

write_uint8(cell, v) == write_uint(cell, v, 8)

write_bytes(cell, b) == [cell EXCEPT !.bits = @ \o b]

RECURSIVE Utf8(_)
Utf8(s) ==
    IF s = <<>> THEN <<>>
    ELSE (IF Head(s) < 128 THEN <<Head(s)>>
          ELSE <<192 + (Head(s) \div 64), 128 + (Head(s) % 64)>>) \o Utf8(Tail(s))

write_string(cell, s) == write_bytes(cell, Utf8(s))

write_cell(cell, other) ==
    [bits |-> cell.bits \o other.bits, refs |-> cell.refs \o other.refs]

append_ref(cell, child) == [cell EXCEPT !.refs = Append(@, child)]

RECURSIVE SumSeq(_)
SumSeq(s) == IF s = <<>> THEN 0 ELSE Head(s) + SumSeq(Tail(s))

RECURSIVE bytes_hash(_)
bytes_hash(cell) ==
    LET RECURSIVE RefSum(_)
        RefSum(rs) == IF rs = <<>> THEN 0
                      ELSE 1 + bytes_hash(Head(rs)) + 3 * RefSum(Tail(rs))
    IN  (Len(cell.bits) + SumSeq(cell.bits) + 7 * RefSum(cell.refs)) % 256

(***************************************************************************)
(* Outcomes of a call: a returned value or a raised exception.             *)
(***************************************************************************)
Return(v) == [ok |-> TRUE, error |-> "", v |-> v]
Raise(e) == [ok |-> FALSE, error |-> e]

(***************************************************************************)
(* utils.Address and utils.sign_message.                                   *)
(***************************************************************************)
Address(a) ==
    IF a = None THEN Raise("InvalidAddressError")
    ELSE Return([wc |-> 0, hash_part |-> a[1]])

SignatureLen == 64

sign_message(digest, private_key) ==
    [i \in 1..SignatureLen |-> (digest + private_key * i) % 256]

bytes(n) == [i \in 1..n |-> 0]

(***************************************************************************)
(* Contract: the message headers and the common message info.              *)
(***************************************************************************)
create_internal_message_header(dest, amount) ==
    write_bytes(write_bytes(write_bytes(Cell, <<98>>), <<dest.wc, dest.hash_part>>),
                UintBE(amount, 4))

create_external_message_header(dest) ==
    write_bytes(write_bytes(Cell, <<128>>), <<dest.wc, dest.hash_part>>)

create_common_msg_info(header, state_init, body) ==
    LET c0 == write_cell(Cell, header)
        c1 == IF state_init # None
              THEN append_ref(write_bytes(c0, <<1>>), state_init[1])
              ELSE write_bytes(c0, <<0>>)
    IN  append_ref(write_bytes(c1, <<1>>), body)

(* A payload value: a str or bytes object holds v, a Cell object holds     *)
(* cell.                                                                   *)
PyStr(t) == [type |-> "str", v |-> t, cell |-> Cell]
PyBytes(b) == [type |-> "bytes", v |-> b, cell |-> Cell]
PyCell(c) == [type |-> "Cell", v |-> <<>>, cell |-> c]

(***************************************************************************)
(* WalletMessage.                                                          *)
(***************************************************************************)
WalletMessage(address, amount, send_mode, payload, state_init) ==
    [address |-> address, amount |-> amount, send_mode |-> send_mode,
     payload |-> payload, state_init |-> state_init]

to_dict_DropsFalsy(cls) ==
    LET keys == {"address", "amount", "send_mode"}
                \cup (IF cls.payload # None
                         /\ (cls.payload[1].type = "Cell" \/ Len(cls.payload[1].v) > 0)
                      THEN {"payload"} ELSE {})
                \cup (IF cls.state_init # None THEN {"state_init"} ELSE {})
    IN  [k \in keys |-> cls[k]]

to_dict(cls) ==
    LET keys == {"address", "amount", "send_mode"}
                \cup (IF cls.payload # None THEN {"payload"} ELSE {})
                \cup (IF cls.state_init # None THEN {"state_init"} ELSE {})
    IN  [k \in keys |-> cls[k]]

Get(d, key, default) == IF key \in DOMAIN d THEN d[key] ELSE default

from_dict(d) ==
    WalletMessage(Get(d, "address", None),
                  Get(d, "amount", None),
                  Get(d, "send_mode", BitOr(ignore_errors, pay_gas_separately)),
                  Get(d, "payload", None),
                  Get(d, "state_init", None))


(***************************************************************************)
(* WalletContract.                                                         *)
(***************************************************************************)
InitRaises_AndForOr(kwargs) ==
    (("public_key" \notin DOMAIN kwargs /\ "private_key" \notin DOMAIN kwargs)
        /\ "address" \notin DOMAIN kwargs)
    /\ "public_keys" \notin DOMAIN kwargs

InitRaises(kwargs) ==
    (("public_key" \notin DOMAIN kwargs \/ "private_key" \notin DOMAIN kwargs)
        /\ "address" \notin DOMAIN kwargs)
    /\ "public_keys" \notin DOMAIN kwargs

WalletContract(kwargs) ==
    IF InitRaises(kwargs)
    THEN Raise("WalletContract required publicKey or address in options")
    ELSE Return([options |-> kwargs])

create_data_cell(self) ==
    IF "public_key" \notin DOMAIN self.options
    THEN Raise("KeyError: public_key")
    ELSE Return(write_bytes(write_uint(Cell, 0, 32), self.options["public_key"]))

create_code_cell == write_bytes(Cell, <<255, 0, 196>>)

create_state_init(self) ==
    LET data == create_data_cell(self)
    IN  IF ~data.ok THEN data
        ELSE LET code == create_code_cell
                 state_init == append_ref(append_ref(write_bytes(Cell, <<6>>), code), data.v)
             IN  Return([state_init |-> state_init,
                         address |-> [wc |-> 0, hash_part |-> bytes_hash(state_init)],
                         code |-> code,
                         data |-> data.v])

address_property(self) ==
    IF "address" \in DOMAIN self.options
    THEN Address(Some(self.options["address"]))
    ELSE LET deploy == create_state_init(self)
         IN  IF deploy.ok THEN Return(deploy.v.address) ELSE deploy

create_signing_message(seqno) ==
    LET seqno_or_0 == IF seqno # None /\ seqno[1] # 0 THEN seqno[1] ELSE 0
    IN  write_uint(Cell, seqno_or_0, 32)

(* The result of a message-building call, with what it did on the way:     *)
(* branches = orders appended to the signing message, sign_calls = calls   *)
(* of sign_message.                                                        *)
Outcome(r, branches, sign_calls) ==
    [status |-> IF r.ok THEN "ok" ELSE "error",
     error |-> r.error,
     value |-> IF r.ok THEN Some(r.v) ELSE None,
     branches |-> branches,
     sign_calls |-> sign_calls]

(* Lines 119-120.  signed tells whether sign_message was called. *)
Signature_SignsAnyway(self, signing_message, dummy_signature) ==
    IF "private_key" \in DOMAIN self.options
    THEN [ok |-> TRUE, error |-> "", signed |-> TRUE,
          v |-> sign_message(bytes_hash(signing_message), self.options["private_key"])]
    ELSE [ok |-> TRUE, error |-> "", v |-> bytes(64), signed |-> FALSE]

Signature(self, signing_message, dummy_signature) ==
    IF dummy_signature
    THEN [ok |-> TRUE, error |-> "", v |-> bytes(64), signed |-> FALSE]
    ELSE IF "private_key" \notin DOMAIN self.options
         THEN [ok |-> FALSE, error |-> "KeyError: private_key", signed |-> FALSE]
         ELSE [ok |-> TRUE, error |-> "", signed |-> TRUE,
               v |-> sign_message(bytes_hash(signing_message), self.options["private_key"])]

create_external_message(self, signing_message, seqno, dummy_signature, branches) ==
    LET sig == Signature(self, signing_message, dummy_signature)
        sign_calls == IF sig.signed THEN 1 ELSE 0
    IN  IF ~sig.ok THEN Outcome(sig, branches, sign_calls)
        ELSE
        LET signature == sig.v
            body == write_cell(write_bytes(Cell, signature), signing_message)
            deploy == IF seqno = Some(0) THEN create_state_init(self)
                      ELSE Return([state_init |-> Cell, code |-> Cell, data |-> Cell])
        IN  IF ~deploy.ok THEN Outcome(deploy, branches, sign_calls)
            ELSE
            LET state_init == IF seqno = Some(0) THEN Some(deploy.v.state_init) ELSE None
                code == IF seqno = Some(0) THEN Some(deploy.v.code) ELSE None
                data == IF seqno = Some(0) THEN Some(deploy.v.data) ELSE None
                self_address == address_property(self)
            IN  IF ~self_address.ok THEN Outcome(self_address, branches, sign_calls)
                ELSE
                LET header == create_external_message_header(self_address.v)
                    result_message == create_common_msg_info(header, state_init, body)
                IN  Outcome(Return([address |-> self_address.v,
                                    message |-> result_message,
                                    body |-> body,
                                    signature |-> signature,
                                    signing_message |-> signing_message,
                                    state_init |-> state_init,
                                    code |-> code,
                                    data |-> data]),
                            branches, sign_calls)

(* `if payload:` -- the truth value of the payload.  cell_bool is the      *)
(* truth value the cell engine gives an empty Cell.                        *)
Truthy(payload, cell_bool) ==
    IF payload = None THEN FALSE
    ELSE IF payload[1].type = "Cell"
         THEN (payload[1].cell # Cell) \/ cell_bool
         ELSE Len(payload[1].v) > 0

PayloadCell_NoMarker(payload, cell_bool) ==
    IF Truthy(payload, cell_bool)
    THEN IF payload[1].type = "Cell"
         THEN payload[1].cell
         ELSE write_bytes(Cell, payload[1].v)
    ELSE Cell

PayloadCell(payload, cell_bool) ==
    IF Truthy(payload, cell_bool)
    THEN IF payload[1].type = "str"
         THEN write_string(write_uint(Cell, 0, 32), payload[1].v)
         ELSE IF payload[1].type = "Cell"
              THEN payload[1].cell
              ELSE write_bytes(Cell, payload[1].v)
    ELSE Cell

(* The body of the loop up to the order: lines 96-112. *)
Recipient(item) ==
    IF item.type = "dict" THEN Return(from_dict(item.v))
    ELSE IF item.type = "WalletMessage" THEN Return(item.v)
    ELSE Raise("AttributeError: payload")

Order(recipient, cell_bool) ==
    LET payload_cell == PayloadCell(recipient.payload, cell_bool)
        dest == Address(recipient.address)
    IN  IF ~dest.ok THEN dest
        ELSE IF recipient.amount = None THEN Raise("TypeError: Decimal")
        ELSE Return(create_common_msg_info(
                        create_internal_message_header(dest.v, recipient.amount[1]),
                        recipient.state_init, payload_cell))

(* Lines 113-114. *)
AppendOrder_Prepends(signing_message, send_mode, order) ==
    [bits |-> signing_message.bits \o <<send_mode>>,
     refs |-> <<order>> \o signing_message.refs]

AppendOrder(signing_message, send_mode, order) ==
    append_ref(write_uint8(signing_message, send_mode), order)

RECURSIVE AddRecipients(_, _, _, _)
AddRecipients(signing_message, items, i, cell_bool) ==
    IF i > Len(items)
    THEN [ok |-> TRUE, error |-> "", v |-> signing_message, branches |-> i - 1]
    ELSE LET recipient == Recipient(items[i])
         IN  IF ~recipient.ok
             THEN [ok |-> FALSE, error |-> recipient.error, branches |-> i - 1]
             ELSE LET order == Order(recipient.v, cell_bool)
                  IN  IF ~order.ok
                      THEN [ok |-> FALSE, error |-> order.error, branches |-> i - 1]
                      ELSE AddRecipients(
                               AppendOrder(signing_message, recipient.v.send_mode, order.v),
                               items, i + 1, cell_bool)

(* Lines 78-89: the recipients list the rest of the method works on. *)
Normalize_DropsSendMode(recipients_list, to_addr, amount, send_mode, payload, state_init) ==
    IF recipients_list.type = "NoneType"
    THEN [type |-> "list",
          v |-> << [type |-> "WalletMessage",
                    v |-> WalletMessage(to_addr, amount,
                                        BitOr(ignore_errors, pay_gas_separately),
                                        payload, state_init)] >>]
    ELSE IF recipients_list.type = "WalletMessage"
         THEN [type |-> "list", v |-> <<recipients_list>>]
         ELSE recipients_list

Normalize(recipients_list, to_addr, amount, send_mode, payload, state_init) ==
    IF recipients_list.type = "NoneType"
    THEN [type |-> "list",
          v |-> << [type |-> "WalletMessage",
                    v |-> WalletMessage(to_addr, amount, send_mode, payload, state_init)] >>]
    ELSE IF recipients_list.type = "WalletMessage"
         THEN [type |-> "list", v |-> <<recipients_list>>]
         ELSE recipients_list

KeyOrder == <<"address", "amount", "send_mode", "payload", "state_init">>

(* len() and iteration of a list or of a dict (a dict iterates its keys). *)
PyLen(obj) == IF obj.type = "list" THEN Len(obj.v) ELSE Cardinality(DOMAIN obj.v)

PyIter(obj) ==
    IF obj.type = "list" THEN obj.v
    ELSE LET keys == SelectSeq(KeyOrder, LAMBDA k : k \in DOMAIN obj.v)
         IN  [i \in 1..Len(keys) |-> [type |-> "str", v |-> keys[i]]]

RecipientLimit_OffByOne == 4 + 1

RecipientLimit == 4

create_transfer_message(self, to_addr, amount, seqno, payload, send_mode, dummy_signature, state_init, recipients_list, cell_bool) ==
    LET recipients == Normalize(recipients_list, to_addr, amount, send_mode, payload, state_init)
    IN  IF PyLen(recipients) > RecipientLimit
        THEN Outcome(Raise("Many recipients for this contract"), 0, 0)
        ELSE LET built == AddRecipients(create_signing_message(seqno), PyIter(recipients),
                                        1, cell_bool)
             IN  IF ~built.ok THEN Outcome(built, built.branches, 0)
                 ELSE create_external_message(self, built.v, seqno, dummy_signature,
                                              built.branches)

create_init_external_message(self) ==
    LET deploy == create_state_init(self)
    IN  IF ~deploy.ok THEN Outcome(deploy, 0, 0)
        ELSE
        LET state_init == deploy.v.state_init
            signing_message == create_signing_message(None)
        IN  IF "private_key" \notin DOMAIN self.options
            THEN Outcome(Raise("KeyError: private_key"), 0, 0)
            ELSE
            LET signature == sign_message(bytes_hash(signing_message),
                                          self.options["private_key"])
                body == write_cell(write_bytes(Cell, signature), signing_message)
                header == create_external_message_header(deploy.v.address)
                external_message == create_common_msg_info(header, Some(state_init), body)
            IN  Outcome(Return([address |-> deploy.v.address,
                                message |-> external_message,
                                body |-> body,
                                signing_message |-> signing_message,
                                state_init |-> Some(state_init),
                                code |-> Some(deploy.v.code),
                                data |-> Some(deploy.v.data)]),
                        0, 1)

(***************************************************************************)
(* The inputs explored.                                                    *)
(***************************************************************************)
MaxRecipients == 5

PublicKey == <<170, 187>>
PrivateKeys == {11, 22}
WalletAddress == 77

Kwargs(public_key, private_key, addr, public_keys) ==
    LET keys == (IF public_key # None THEN {"public_key"} ELSE {})
                \cup (IF private_key # None THEN {"private_key"} ELSE {})
                \cup (IF addr # None THEN {"address"} ELSE {})
                \cup (IF public_keys # None THEN {"public_keys"} ELSE {})
    IN  [k \in keys |-> CASE k = "public_key" -> public_key[1]
                          [] k = "private_key" -> private_key[1]
                          [] k = "address" -> addr[1]
                          [] k = "public_keys" -> public_keys[1]]

KwargsSet ==
    { Kwargs(pub, priv, addr, pks) :
        pub \in {None, Some(PublicKey)},
        priv \in {None} \cup {Some(k) : k \in PrivateKeys},
        addr \in {None, Some(WalletAddress)},
        pks \in {None, Some(<<PublicKey, <<1, 2>>>>)} }

Addresses == {Some(1), Some(2)}
Amounts == {Some(1000)}
SendModes == {DefaultSendMode, carry_all_remaining_balance}
Texts == {<<>>, <<104, 233>>}
ByteStrings == {<<>>, <<0, 0, 0, 0, 104, 105>>}
Cells == {Cell, append_ref(write_bytes(Cell, <<7>>), write_bytes(Cell, <<9>>))}
Payloads ==
    {None} \cup {Some(PyStr(t)) : t \in Texts}
           \cup {Some(PyBytes(b)) : b \in ByteStrings}
           \cup {Some(PyCell(c)) : c \in Cells}
StateInits == {None, Some(write_bytes(Cell, <<42>>))}
Seqnos == {None, Some(0), Some(5)}

Messages ==
    { WalletMessage(a, x, sm, p, si) :
        a \in Addresses, x \in Amounts, sm \in SendModes, p \in Payloads, si \in StateInits }

(* Mappings: those to_dict gives, and those with optional keys left out. *)
Dicts ==
    { [k \in keys |-> m[k]] :
        m \in Messages,
        keys \in { {"address", "amount"} \cup opt :
                     opt \in SUBSET {"send_mode", "payload", "state_init"} } }

PyNone == [type |-> "NoneType", v |-> None]
AsWalletMessage(m) == [type |-> "WalletMessage", v |-> m]
AsDict(d) == [type |-> "dict", v |-> d]
AsList(items) == [type |-> "list", v |-> items]

ListItems ==
    { AsDict([address |-> Some(1), amount |-> Some(5)]),
      AsWalletMessage(WalletMessage(Some(2), Some(1000), carry_all_remaining_balance,
                                    Some(PyCell(write_bytes(Cell, <<7>>))),
                                    Some(write_bytes(Cell, <<42>>)))) }

Lists ==
    UNION { [1..n -> ListItems] : n \in 0..MaxRecipients }
    \cup { <<AsWalletMessage(m)>> : m \in Messages }
    \cup { <<AsDict(to_dict(m))>> : m \in Messages }

(***************************************************************************)
(* The state: the wallet object, the last call and what it gave.           *)
(***************************************************************************)
VARIABLES wallet, call, result

vars == <<wallet, call, result>>

NoCall == [op |-> "none", args |-> None]
NoResult == [status |-> "none", error |-> "", value |-> None, branches |-> 0, sign_calls |-> 0]

Init == wallet = None /\ call = NoCall /\ result = NoResult

Ready == call.op \in {"none", "construct"}

Construct ==
    /\ wallet = None
    /\ \E kwargs \in KwargsSet :
          LET r == WalletContract(kwargs)
          IN  /\ call' = [op |-> "construct", args |-> kwargs]
              /\ result' = Outcome(r, 0, 0)
              /\ wallet' = IF r.ok THEN Some(r.v) ELSE None

TransferArgsOf(to_addr, amount, seqno, payload, send_mode, dummy_signature, state_init, recipients_list) ==
    [to_addr |-> to_addr, amount |-> amount, seqno |-> seqno, payload |-> payload,
     send_mode |-> send_mode, dummy_signature |-> dummy_signature,
     state_init |-> state_init, recipients_list |-> recipients_list]

(* Arguments left out take the defaults of the signature (lines 71-77). *)
WithRecipients(recipients_list, seqno, dummy_signature) ==
    TransferArgsOf(None, None, seqno, None,
                   BitOr(ignore_errors, pay_gas_separately), dummy_signature, None,
                   recipients_list)

Invoke(self, a, cell_bool) ==
    create_transfer_message(self, a.to_addr, a.amount, a.seqno, a.payload, a.send_mode,
                            a.dummy_signature, a.state_init, a.recipients_list, cell_bool)

TransferArgs ==
    /\ wallet # None
    /\ Ready
    /\ \E to_addr \in Addresses \cup {None}, amount \in Amounts, seqno \in Seqnos,
          payload \in Payloads, send_mode \in SendModes, dummy_signature \in BOOLEAN,
          state_init \in StateInits, cell_bool \in BOOLEAN :
          LET a == TransferArgsOf(to_addr, amount, seqno, payload, send_mode,
                                  dummy_signature, state_init, PyNone)
          IN  /\ call' = [op |-> "create_transfer_message", args |-> a]
              /\ result' = Invoke(wallet[1], a, cell_bool)
    /\ UNCHANGED wallet

TransferSingle ==
    /\ wallet # None
    /\ Ready
    /\ \E m \in Messages, seqno \in Seqnos, dummy_signature \in BOOLEAN,
          cell_bool \in BOOLEAN :
          LET a == WithRecipients(AsWalletMessage(m), seqno, dummy_signature)
          IN  /\ call' = [op |-> "create_transfer_message", args |-> a]
              /\ result' = Invoke(wallet[1], a, cell_bool)
    /\ UNCHANGED wallet

TransferMapping ==
    /\ wallet # None
    /\ Ready
    /\ \E m \in Messages, seqno \in Seqnos, dummy_signature \in BOOLEAN,
          cell_bool \in BOOLEAN :
          LET a == WithRecipients(AsDict(to_dict(m)), seqno, dummy_signature)
          IN  /\ call' = [op |-> "create_transfer_message", args |-> a]
              /\ result' = Invoke(wallet[1], a, cell_bool)
    /\ UNCHANGED wallet

TransferList ==
    /\ wallet # None
    /\ Ready
    /\ \E items \in Lists, seqno \in Seqnos, dummy_signature \in BOOLEAN,
          cell_bool \in BOOLEAN :
          LET a == WithRecipients(AsList(items), seqno, dummy_signature)
          IN  /\ call' = [op |-> "create_transfer_message", args |-> a]
              /\ result' = Invoke(wallet[1], a, cell_bool)
    /\ UNCHANGED wallet

InitExternal ==
    /\ wallet # None
    /\ Ready
    /\ call' = [op |-> "create_init_external_message", args |-> None]
    /\ result' = create_init_external_message(wallet[1])
    /\ UNCHANGED wallet

ToDict ==
    /\ Ready
    /\ \E m \in Messages :
          /\ call' = [op |-> "to_dict", args |-> m]
          /\ result' = Outcome(Return(to_dict(m)), 0, 0)
    /\ UNCHANGED wallet

FromDict ==
    /\ Ready
    /\ \E d \in Dicts :
          /\ call' = [op |-> "from_dict", args |-> d]
          /\ result' = Outcome(Return(from_dict(d)), 0, 0)
    /\ UNCHANGED wallet

(* The caller takes the result (the envelope goes to submission). *)
Handoff ==
    /\ ~Ready
    /\ call' = NoCall
    /\ result' = NoResult
    /\ UNCHANGED wallet

Next ==
    \/ Construct
    \/ TransferArgs
    \/ TransferSingle
    \/ TransferMapping
    \/ TransferList
    \/ InitExternal
    \/ ToDict
    \/ FromDict
    \/ Handoff

Spec == Init /\ [][Next]_vars

(***************************************************************************)
(* Properties.                                                             *)
(***************************************************************************)
IsTransfer == call.op = "create_transfer_message"
IsInitExternal == call.op = "create_init_external_message"
Returned == result.status = "ok" /\ result.value # None
Failed == result.status = "error" /\ result.value = None
Envelope == result.value[1]
HasKeypair == wallet # None /\ {"public_key", "private_key"} \subseteq DOMAIN wallet[1].options
NoPrivateKey == wallet # None /\ "private_key" \notin DOMAIN wallet[1].options
Zeros64 == [i \in 1..64 |-> 0]

(* The instruction an item of a recipients list stands for. *)
InstructionOf(item) == IF item.type = "dict" THEN from_dict(item.v) ELSE item.v

(* The instructions a call of create_transfer_message is given. *)
GivenInstructions ==
    LET a == call.args
    IN  IF a.recipients_list.type = "NoneType"
        THEN <<WalletMessage(a.to_addr, a.amount, a.send_mode, a.payload, a.state_init)>>
        ELSE IF a.recipients_list.type = "WalletMessage"
             THEN <<a.recipients_list.v>>
             ELSE IF a.recipients_list.type = "list"
                  THEN [i \in 1..Len(a.recipients_list.v) |->
                            InstructionOf(a.recipients_list.v[i])]
                  ELSE <<>>

(* C1: a call with an explicit recipients list of more than 4 instructions *)
(* fails with the too-many-recipients error before any branch is built or  *)
(* any signature computed; a list of 0..4 never fails with that error, and *)
(* on a wallet with a keypair it returns an envelope.                      *)
C1_RecipientCount ==
    (IsTransfer /\ call.args.recipients_list.type = "list") =>
        LET n == Len(call.args.recipients_list.v)
        IN  /\ n >= 5 => /\ Failed
                         /\ result.error = "Many recipients for this contract"
                         /\ result.branches = 0
                         /\ result.sign_calls = 0
            /\ n <= 4 => /\ result.error # "Many recipients for this contract"
                         /\ HasKeypair => Returned

C1_Witness ==
    /\ IsTransfer /\ call.args.recipients_list.type = "list"
    /\ Len(call.args.recipients_list.v) = 5
    /\ HasKeypair
    /\ Failed

C1_WitnessAccepted ==
    /\ IsTransfer /\ call.args.recipients_list.type = "list"
    /\ Len(call.args.recipients_list.v) = 4
    /\ Returned

(* C2: in every returned envelope, state_init, code and data are all       *)
(* non-null if the replay counter in the signing payload header is 0, and  *)
(* all null otherwise.                                                     *)
C2_DeployIffCounterZero ==
    (IsTransfer /\ Returned) =>
        LET counter == SubSeq(Envelope.signing_message.bits, 1, 4)
        IN  IF counter = <<0, 0, 0, 0>>
            THEN Envelope.state_init # None /\ Envelope.code # None /\ Envelope.data # None
            ELSE Envelope.state_init = None /\ Envelope.code = None /\ Envelope.data = None

(* C3: for an accepted list of n instructions the signing payload has n    *)
(* branches and n send-mode bytes after the 4-byte header, the i-th of     *)
(* each built from the i-th instruction.                                   *)
C3_BranchOrder ==
    (IsTransfer /\ call.args.recipients_list.type = "list" /\ Returned) =>
        LET items == call.args.recipients_list.v
            n == Len(items)
            sm == Envelope.signing_message
        IN  /\ n <= 4
            /\ Len(sm.refs) = n
            /\ Len(sm.bits) = 4 + n
            /\ result.branches = n
            /\ \A i \in 1..n :
                  /\ sm.bits[4 + i] = InstructionOf(items[i]).send_mode
                  /\ \A cell_bool \in BOOLEAN :
                        sm.refs[i] = Order(InstructionOf(items[i]), cell_bool).v

C3_Witness ==
    /\ IsTransfer /\ call.args.recipients_list.type = "list" /\ Returned
    /\ Len(call.args.recipients_list.v) = 4
    /\ call.args.recipients_list.v[1] # call.args.recipients_list.v[2]
    /\ call.args.recipients_list.v[3] # call.args.recipients_list.v[4]

(* C4: with dummy_signature the returned signature is 64 zero bytes, the   *)
(* body begins with them, and sign_message is not called, whatever keys    *)
(* the wallet holds.                                                       *)
C4_DummySignature ==
    (IsTransfer /\ call.args.dummy_signature) =>
        /\ result.sign_calls = 0
        /\ Returned => /\ Envelope.signature = Zeros64
                       /\ Len(Envelope.body.bits) >= 64
                       /\ SubSeq(Envelope.body.bits, 1, 64) = Zeros64

C4_Witness ==
    /\ IsTransfer /\ call.args.dummy_signature /\ Returned
    /\ NoPrivateKey

C4_WitnessWithKey ==
    /\ IsTransfer /\ call.args.dummy_signature /\ Returned
    /\ HasKeypair

(* C5: a real signature asked of a wallet without a private key makes      *)
(* create_transfer_message and create_init_external_message fail, return   *)
(* no envelope and leave the wallet as it was.                             *)
C5_MissingKey ==
    [][ ( /\ wallet # None
          /\ "private_key" \notin DOMAIN wallet[1].options
          /\ \/ call'.op = "create_init_external_message"
             \/ call'.op = "create_transfer_message" /\ ~call'.args.dummy_signature )
        => ( /\ result'.status = "error"
             /\ result'.value = None
             /\ result'.sign_calls = 0
             /\ wallet' = wallet ) ]_vars

C5_Witness ==
    /\ IsTransfer /\ ~call.args.dummy_signature
    /\ NoPrivateKey
    /\ call.args.recipients_list.type = "list"
    /\ Len(call.args.recipients_list.v) = 1
    /\ result.branches = 1
    /\ result.error = "KeyError: private_key"

C5_WitnessInit ==
    /\ IsInitExternal /\ NoPrivateKey /\ Failed
    /\ result.error = "KeyError: private_key"

(* The payload sub-cell of the i-th branch: the last child of its order. *)
PayloadSubCell(i) ==
    LET order == Envelope.signing_message.refs[i]
    IN  order.refs[Len(order.refs)]

(* C6 as claimed: the payload sub-cell follows the payload's kind, the     *)
(* empty string included: absent gives an empty cell, text the 4 zero      *)
(* bytes and then the text's bytes, a cell that cell, bytes those bytes.   *)
C6_PayloadDispatch_Claimed ==
    (IsTransfer /\ Returned) =>
        \A i \in 1..Len(GivenInstructions) :
            LET p == GivenInstructions[i].payload
                sub == PayloadSubCell(i)
            IN  IF p = None THEN sub = [bits |-> <<>>, refs |-> <<>>]
                ELSE IF p[1].type = "str"
                     THEN sub = [bits |-> <<0, 0, 0, 0>> \o Utf8(p[1].v), refs |-> <<>>]
                     ELSE IF p[1].type = "Cell"
                          THEN sub = p[1].cell
                          ELSE sub = [bits |-> p[1].v, refs |-> <<>>]

(* C6 as amended: the same, but the empty string gives an empty cell. *)
C6_PayloadDispatch ==
    (IsTransfer /\ Returned) =>
        \A i \in 1..Len(GivenInstructions) :
            LET p == GivenInstructions[i].payload
                sub == PayloadSubCell(i)
            IN  IF p = None THEN sub = [bits |-> <<>>, refs |-> <<>>]
                ELSE IF p[1].type = "str"
                     THEN IF p[1].v = <<>>
                          THEN sub = [bits |-> <<>>, refs |-> <<>>]
                          ELSE sub = [bits |-> <<0, 0, 0, 0>> \o Utf8(p[1].v), refs |-> <<>>]
                     ELSE IF p[1].type = "Cell"
                          THEN sub = p[1].cell
                          ELSE sub = [bits |-> p[1].v, refs |-> <<>>]

C6_Witness ==
    /\ IsTransfer /\ Returned
    /\ Len(GivenInstructions) = 1
    /\ GivenInstructions[1].payload = Some(PyStr(<<104, 233>>))
    /\ PayloadSubCell(1).bits = <<0, 0, 0, 0, 104, 195, 169>>

C6_WitnessEmptyText ==
    /\ IsTransfer /\ Returned
    /\ Len(GivenInstructions) = 1
    /\ GivenInstructions[1].payload = Some(PyStr(<<>>))

(* C7: from_dict(to_dict(m)) = m for every instruction m, and from_dict of *)
(* a mapping without send_mode, payload and state_init gives send-mode 3   *)
(* and no payload and no deployment package.                               *)
C7_RoundTrip ==
    /\ call.op = "to_dict" =>
          /\ Returned
          /\ from_dict(result.value[1]) = call.args
    /\ call.op = "from_dict" =>
          /\ Returned
          /\ \A m \in Messages : call.args = to_dict(m) => result.value[1] = m
          /\ DOMAIN call.args = {"address", "amount"} =>
                /\ result.value[1].send_mode = 3
                /\ result.value[1].payload = None
                /\ result.value[1].state_init = None
                /\ result.value[1].address = call.args.address
                /\ result.value[1].amount = call.args.amount

C7_Witness ==
    /\ call.op = "to_dict"
    /\ call.args.payload = Some(PyStr(<<>>))
    /\ call.args.state_init = None
    /\ DOMAIN result.value[1] = {"address", "amount", "send_mode", "payload"}

C7_WitnessDefaults ==
    /\ call.op = "from_dict"
    /\ DOMAIN call.args = {"address", "amount"}

(* C8: construction succeeds exactly when the options hold (public_key and *)
(* private_key) or address or public_keys; otherwise it fails and there is *)
(* no wallet.                                                              *)
C8_Construction ==
    call.op = "construct" =>
        LET keys == DOMAIN call.args
            usable == \/ ("public_key" \in keys /\ "private_key" \in keys)
                      \/ "address" \in keys
                      \/ "public_keys" \in keys
        IN  /\ Returned <=> usable
            /\ usable => wallet = Some([options |-> call.args])
            /\ ~usable => Failed /\ wallet = None

C8_Witness ==
    /\ call.op = "construct"
    /\ DOMAIN call.args = {"public_key"}
    /\ Failed

C8_WitnessAccepted ==
    /\ call.op = "construct"
    /\ DOMAIN call.args = {"public_keys"}
    /\ Returned

(* C9: create_init_external_message signs for real, over a signing payload *)
(* with seqno 0 and no branches, and returns an envelope with the fields   *)
(* of create_transfer_message's, state_init, code and data non-null.       *)
C9_InitEnvelopeShape ==
    (IsInitExternal /\ Returned) =>
        /\ DOMAIN Envelope = {"address", "message", "body", "signature",
                              "signing_message", "state_init", "code", "data"}
        /\ Envelope.signing_message = [bits |-> <<0, 0, 0, 0>>, refs |-> <<>>]
        /\ result.sign_calls = 1
        /\ Envelope.state_init # None /\ Envelope.code # None /\ Envelope.data # None

(* The call made with the one-element list [m] in place of the given       *)
(* recipients.                                                             *)
AsListOfOne(m, cell_bool) ==
    Invoke(wallet[1],
           WithRecipients(AsList(<<AsWalletMessage(m)>>), call.args.seqno,
                          call.args.dummy_signature),
           cell_bool)

EqualToListOfOne ==
    LET a == call.args
        rl == a.recipients_list
    IN  \A cell_bool \in BOOLEAN :
        /\ rl.type = "NoneType" =>
              result = AsListOfOne(WalletMessage(a.to_addr, a.amount, a.send_mode,
                                                 a.payload, a.state_init), cell_bool)
        /\ rl.type = "WalletMessage" => result = AsListOfOne(rl.v, cell_bool)
        /\ (rl.type = "list" /\ Len(rl.v) = 1 /\ rl.v[1].type = "dict") =>
              \A m \in Messages :
                  rl.v[1].v = to_dict(m) => result = AsListOfOne(m, cell_bool)

(* C10 as claimed: a single instruction, its mapping alone, the list of    *)
(* it, the list of its mapping and its fields as arguments all give the    *)
(* same signing payload and envelope.                                      *)
C10_Normalized_Claimed ==
    IsTransfer =>
        /\ EqualToListOfOne
        /\ call.args.recipients_list.type = "dict" =>
              \A m \in Messages, cell_bool \in BOOLEAN :
                  call.args.recipients_list.v = to_dict(m) =>
                      result.value = AsListOfOne(m, cell_bool).value

(* C10 as amended: the same without the mapping alone, which is taken for  *)
(* a list of its keys and fails.                                           *)
C10_Normalized ==
    IsTransfer =>
        /\ EqualToListOfOne
        /\ call.args.recipients_list.type = "dict" => Failed

C10_Witness ==
    /\ IsTransfer /\ Returned
    /\ call.args.recipients_list.type = "NoneType"
    /\ call.args.send_mode = 128
    /\ call.args.payload # None
    /\ call.args.state_init # None

C10_WitnessMapping ==
    /\ IsTransfer /\ HasKeypair
    /\ call.args.recipients_list.type = "dict"
    /\ Failed
====
